---- MODULE Spec2Model ----
(***************************************************************************)
(* Model of project.py: the recency-ordered ledger kept in an OrderedDict  *)
(* (load from CSV, upsert with move-to-end, save to CSV) and the main loop *)
(* that feeds it, one input file after the other.                          *)
(*                                                                         *)
(* Text is modelled as sequences of one-character strings, so that         *)
(* str.strip, str.lower, rsplit and os.path.basename are computed.  The    *)
(* `interests` CSV field is a sequence of JSON tokens: "[", "]", "," and   *)
(* the string literals "p" and "q".  JSON documents that parse to          *)
(* something other than an array of strings are outside the input sets.    *)
(***************************************************************************)
EXTENDS Integers, Sequences, FiniteSets, TLC

VARIABLES
    pc,        \* position of main: "start", "files", "people", "done", "aborted"
    disk,      \* the CSV at args.out: [present, rows]
    od,        \* the OrderedDict: sequence of [key, interests]
    nFiles,    \* len(args.files)
    fileIdx,   \* number of files of args.files already taken by the for loop
    cur,       \* path of the file whose people are being upserted
    todo,      \* elements of `people` not yet iterated
    last,      \* what happened to the file taken last
    writes,    \* number of calls of write_ordereddict_to_csv
    nUpserts,  \* number of upserts performed (history)
    upOrder,   \* keys upserted by the main loop, in order of their last upsert (history)
    acc,       \* pairs <<key, interest>> loaded or supplied so far (history)
    pcPair,    \* two runs side by side: "run", "saved", or "idle"
    odA,       \* ledger of the first run
    odB,       \* ledger of the second run
    rowsA,     \* rows written by the first run
    rowsB      \* rows written by the second run

mainVars == <<pc, disk, od, nFiles, fileIdx, cur, todo, last, writes, nUpserts, upOrder, acc>>
pairVars == <<pcPair, odA, odB, rowsA, rowsB>>
vars == <<pc, disk, od, nFiles, fileIdx, cur, todo, last, writes, nUpserts, upOrder, acc,
          pcPair, odA, odB, rowsA, rowsB>>

----------------------------------------------------------------------------
(* Bounds *)

MaxFiles == 2
MaxUpserts == 2
MaxRows == 3

----------------------------------------------------------------------------
(* Sequences *)

ToSet(s) == { s[i] : i \in 1..Len(s) }

Last(s) == s[Len(s)]

RECURSIVE Perms(_)
Perms(S) ==
    IF S = {} THEN { <<>> }
    ELSE UNION { { <<x>> \o p : p \in Perms(S \ {x}) } : x \in S }

SeqsUpTo(S, n) == UNION { [1..k -> S] : k \in 0..n }

----------------------------------------------------------------------------
(* Text *)

WS == " "

\* str.lower on the characters used in the paths below
lower_char(c) ==
    CASE c = "P" -> "p"
      [] c = "D" -> "d"
      [] c = "F" -> "f"
      [] OTHER -> c

lower(s) == [i \in 1..Len(s) |-> lower_char(s[i])]

\* str.strip: drop leading and trailing whitespace
RECURSIVE lstrip(_)
lstrip(s) == IF s # <<>> /\ Head(s) = WS THEN lstrip(Tail(s)) ELSE s

RECURSIVE rstrip(_)
rstrip(s) ==
    IF s # <<>> /\ Last(s) = WS THEN rstrip(SubSeq(s, 1, Len(s) - 1)) ELSE s

strip(s) == rstrip(lstrip(s))

\* the part of s after its last occurrence of c; all of s when c is not in s
AfterLast(s, c) ==
    LET idx == { i \in 1..Len(s) : s[i] = c }
    IN  IF idx = {} THEN s
        ELSE LET m == CHOOSE i \in idx : \A j \in idx : j <= i
             IN  SubSeq(s, m + 1, Len(s))

\* path.lower().rsplit(".", 1)[-1]
ext_of(path) == AfterLast(lower(path), ".")

\* os.path.basename(path)
basename(path) == AfterLast(path, "/")

\* EXTS with one more extension let through
EXTS_and_exe ==
    { <<"d","o","c","x">>, <<"p","d","f">>, <<"p","a","g","e","s">>, <<"t","x","t">>,
      <<"e","x","e">> }

EXTS == { <<"d","o","c","x">>, <<"p","d","f">>, <<"p","a","g","e","s">>, <<"t","x","t">> }

----------------------------------------------------------------------------
(* JSON text of the interests field *)

IsStringLiteral(t) == t \notin { "[", "]", "," }

\* json.dumps(list of strings): "[" item ("," item)* "]"
RECURSIVE join_items(_)
join_items(xs) ==
    IF Len(xs) = 0 THEN <<>>
    ELSE IF Len(xs) = 1 THEN <<xs[1]>>
    ELSE <<xs[1], ",">> \o join_items(Tail(xs))

\* json.dumps that leaves the separators out
json_dumps_no_separator(xs) == <<"[">> \o xs \o <<"]">>

json_dumps(xs) == <<"[">> \o join_items(xs) \o <<"]">>

\* json.loads on a token sequence: [ok |-> parsed?, val |-> the list]
json_loads(text) ==
    LET n     == Len(text)
        inner == SubSeq(text, 2, n - 1)
        m     == Len(inner)
        wellFormed ==
            /\ n >= 2
            /\ text[1] = "["
            /\ text[n] = "]"
            /\ \/ m = 0
               \/ /\ m % 2 = 1
                  /\ \A i \in 1..m :
                        IF i % 2 = 1 THEN IsStringLiteral(inner[i]) ELSE inner[i] = ","
    IN  IF wellFormed
        THEN [ok |-> TRUE, val |-> [i \in 1..((m + 1) \div 2) |-> inner[2 * i - 1]]]
        ELSE [ok |-> FALSE, val |-> <<>>]

----------------------------------------------------------------------------
(* OrderedDict *)

Keys(led) == { led[i].key : i \in 1..Len(led) }

HasKey(led, key) == key \in Keys(led)

Pos(led, key) == CHOOSE i \in 1..Len(led) : led[i].key = key

GetItem(led, key) == led[Pos(led, key)].interests

\* del od[key]
DelItem(led, key) ==
    LET p == Pos(led, key)
    IN  SubSeq(led, 1, p - 1) \o SubSeq(led, p + 1, Len(led))

\* od[key] = value: a present key keeps its position, a new key goes to the end
SetItem(led, key, value) ==
    IF HasKey(led, key)
    THEN [led EXCEPT ![Pos(led, key)].interests = value]
    ELSE Append(led, [key |-> key, interests |-> value])

----------------------------------------------------------------------------
(* CSV load and write *)

\* lines 149-152: try json.loads, except: []
parse_interests(text) ==
    LET r == json_loads(text) IN IF r.ok THEN r.val ELSE <<>>

\* the loop over the rows, a row whose interests do not parse being left out
RECURSIVE load_rows_skip_corrupt(_, _)
load_rows_skip_corrupt(led, rows) ==
    IF rows = <<>> THEN led
    ELSE LET row == Head(rows)
             key == <<row.filename, row.name>>
         IN  IF json_loads(row.interests).ok
             THEN load_rows_skip_corrupt(
                      SetItem(led, key, parse_interests(row.interests)), Tail(rows))
             ELSE load_rows_skip_corrupt(led, Tail(rows))

\* lines 147-153: the loop over the rows
RECURSIVE load_rows(_, _)
load_rows(led, rows) ==
    IF rows = <<>> THEN led
    ELSE LET row == Head(rows)
             key == <<row.filename, row.name>>
         IN  load_rows(SetItem(led, key, parse_interests(row.interests)), Tail(rows))

load_csv_into_ordereddict(file) ==
    IF ~file.present THEN <<>> ELSE load_rows(<<>>, file.rows)

write_rows(led) ==
    [i \in 1..Len(led) |->
        [filename  |-> led[i].key[1],
         name      |-> led[i].key[2],
         interests |-> json_dumps(led[i].interests)]]

write_ordereddict_to_csv(led) == [present |-> TRUE, rows |-> write_rows(led)]

----------------------------------------------------------------------------
(* Upsert, lines 223-232.  list(set(...)) lists the merged set in the      *)
(* iteration order of a set of str, which the hash seed of the process     *)
(* decides: any order of the set is a possible outcome.                    *)

\* upsert that merges in place: no del, the key keeps its position
Upsert_in_place(led, key, interests) ==
    IF HasKey(led, key)
    THEN { SetItem(led, key, merged) :
             merged \in Perms(ToSet(GetItem(led, key)) \cup ToSet(interests)) }
    ELSE { SetItem(led, key, interests) }

\* upsert that replaces the interests of a present key instead of merging
Upsert_replace(led, key, interests) ==
    IF HasKey(led, key)
    THEN { SetItem(DelItem(led, key), key, interests) }
    ELSE { SetItem(led, key, interests) }

\* upsert that appends the merged entry and leaves the old one where it is
Upsert_no_del(led, key, interests) ==
    IF HasKey(led, key)
    THEN { Append(led, [key |-> key, interests |-> merged]) :
             merged \in Perms(ToSet(GetItem(led, key)) \cup ToSet(interests)) }
    ELSE { SetItem(led, key, interests) }

Upsert(led, key, interests) ==
    IF HasKey(led, key)
    THEN { SetItem(DelItem(led, key), key, merged) :
             merged \in Perms(ToSet(GetItem(led, key)) \cup ToSet(interests)) }
    ELSE { SetItem(led, key, interests) }

\* lines 220-221 raise AttributeError on an element that is not an object, or
\* whose "name" is not a string
Raises(person) == person.shape = "nonobj" \/ person.nameKind = "nonstr"

\* line 220: person.get("name", "").strip()
name_of(person) ==
    strip(IF person.nameKind = "missing" THEN <<>> ELSE person.name)

\* line 222
key_of(path, person) == <<basename(path), name_of(person)>>

----------------------------------------------------------------------------
(* Inputs *)

Paths ==
    { <<"a", ".", "t", "x", "t">>,               \* a.txt
      <<"d", "/", "a", ".", "t", "x", "t">>,     \* d/a.txt, same basename as a.txt
      <<"b", ".", "P", "D", "F">>,               \* b.PDF
      <<"c", ".", "e", "x", "e">>,               \* c.exe
      <<"e", ".", "d", "/", "f">>,               \* e.d/f, a dot in the directory only
      <<"t", "x", "t">> }                        \* txt, no dot at all

RawNames == { <<>>, <<WS>>, <<"a">>, <<WS, "a", WS>> }

InterestLists ==
    { <<>>, <<"p">>, <<"p", "q">>, <<"q", "p">>, <<"p", "p">> }

\* the elements an analysis response may hold
Persons ==
    { [shape |-> "obj", nameKind |-> "str", name |-> n, interests |-> xs] :
        n \in RawNames, xs \in InterestLists }
    \cup { [shape |-> "obj", nameKind |-> "missing", name |-> <<>>, interests |-> xs] :
        xs \in InterestLists }
    \cup { [shape |-> "obj", nameKind |-> "nonstr", name |-> <<>>, interests |-> <<>>],
           [shape |-> "nonobj", nameKind |-> "missing", name |-> <<>>, interests |-> <<>>] }

\* texts of the interests field: three JSON arrays, two texts that do not parse
GoodTexts == { <<"[", "]">>, <<"[", "p", "]">>, <<"[", "q", ",", "p", "]">> }
BadTexts == { <<"[", "p">>, <<"p", ",", "]">> }
Texts == GoodTexts \cup BadTexts

RowKeys == { <<<<"a", ".", "t", "x", "t">>, <<"a">>>>,
             <<<<"b", ".", "P", "D", "F">>, <<"a">>>> }

Rows == { [filename |-> k[1], name |-> k[2], interests |-> t] : k \in RowKeys, t \in Texts }

NoFile == [present |-> FALSE, rows |-> <<>>]

AllFiles ==
    { NoFile } \cup { [present |-> TRUE, rows |-> r] : r \in SeqsUpTo(Rows, MaxRows) }

Row(k, t) == [filename |-> k[1], name |-> k[2], interests |-> t]

KeyA == <<<<"a", ".", "t", "x", "t">>, <<"a">>>>
KeyB == <<<<"b", ".", "P", "D", "F">>, <<"a">>>>

\* the CSV files the full runs start from
PersistedFiles ==
    { NoFile,
      [present |-> TRUE, rows |-> << Row(KeyA, <<"[", "p", "]">>) >>],
      [present |-> TRUE, rows |-> << Row(KeyB, <<"[", "q", ",", "p", "]">>),
                                      Row(KeyA, <<"[", "p">>) >>],
      [present |-> TRUE, rows |-> << Row(KeyA, <<"[", "p", "]">>),
                                      Row(KeyB, <<"[", "]">>),
                                      Row(KeyA, <<"[", "q", ",", "p", "]">>) >>] }

NoLast == [path |-> <<>>, isfile |-> FALSE, extract |-> "none", analyze |-> "none"]

PairsOf(led) ==
    UNION { { <<led[i].key, x>> : x \in ToSet(led[i].interests) } : i \in 1..Len(led) }

----------------------------------------------------------------------------
(* main *)

PairIdle ==
    /\ pcPair = "idle"
    /\ odA = <<>>
    /\ odB = <<>>
    /\ rowsA = <<>>
    /\ rowsB = <<>>

InitMain(files, counts) ==
    /\ pc = "start"
    /\ disk \in files
    /\ od = <<>>
    /\ nFiles \in counts
    /\ fileIdx = 0
    /\ cur = <<>>
    /\ todo = 0
    /\ last = NoLast
    /\ writes = 0
    /\ nUpserts = 0
    /\ upOrder = <<>>
    /\ acc = {}

Init == InitMain(PersistedFiles, 1..MaxFiles) /\ PairIdle

\* line 185
Load ==
    /\ pc = "start"
    /\ od' = load_csv_into_ordereddict(disk)
    /\ acc' = PairsOf(od')
    /\ pc' = "files"
    /\ UNCHANGED <<disk, nFiles, fileIdx, cur, todo, last, writes, nUpserts, upOrder>>
    /\ UNCHANGED pairVars

TakeFile == pc = "files" /\ fileIdx < nFiles

\* lines 189-191
SkipMissing ==
    /\ TakeFile
    /\ \E path \in Paths :
          last' = [path |-> path, isfile |-> FALSE, extract |-> "none", analyze |-> "none"]
    /\ fileIdx' = fileIdx + 1
    /\ UNCHANGED <<pc, disk, od, nFiles, cur, todo, writes, nUpserts, upOrder, acc>>
    /\ UNCHANGED pairVars

\* lines 192-195
SkipUnsupported ==
    /\ TakeFile
    /\ \E path \in Paths :
          /\ ext_of(path) \notin EXTS
          /\ last' = [path |-> path, isfile |-> TRUE, extract |-> "none", analyze |-> "none"]
    /\ fileIdx' = fileIdx + 1
    /\ UNCHANGED <<pc, disk, od, nFiles, cur, todo, writes, nUpserts, upOrder, acc>>
    /\ UNCHANGED pairVars

\* lines 198-209
ExtractError ==
    /\ TakeFile
    /\ \E path \in Paths :
          /\ ext_of(path) \in EXTS
          /\ last' = [path |-> path, isfile |-> TRUE, extract |-> "error", analyze |-> "none"]
    /\ fileIdx' = fileIdx + 1
    /\ UNCHANGED <<pc, disk, od, nFiles, cur, todo, writes, nUpserts, upOrder, acc>>
    /\ UNCHANGED pairVars

\* lines 212-216: the request fails, or the content is no JSON even after the
\* scan for an embedded array (lines 125-133)
AnalyzeError ==
    /\ TakeFile
    /\ \E path \in Paths :
          /\ ext_of(path) \in EXTS
          /\ last' = [path |-> path, isfile |-> TRUE, extract |-> "ok", analyze |-> "error"]
    /\ fileIdx' = fileIdx + 1
    /\ UNCHANGED <<pc, disk, od, nFiles, cur, todo, writes, nUpserts, upOrder, acc>>
    /\ UNCHANGED pairVars

\* lines 212-213 and 219: the content parsed to a JSON array of n elements (an
\* object iterates as its keys, which are elements that are not objects)
Analyzed ==
    /\ TakeFile
    /\ \E path \in Paths, n \in 0..(MaxUpserts - nUpserts) :
          /\ ext_of(path) \in EXTS
          /\ last' = [path |-> path, isfile |-> TRUE, extract |-> "ok", analyze |-> "ok"]
          /\ cur' = path
          /\ todo' = n
          /\ pc' = IF n = 0 THEN "files" ELSE "people"
    /\ fileIdx' = fileIdx + 1
    /\ UNCHANGED <<disk, od, nFiles, writes, nUpserts, upOrder, acc>>
    /\ UNCHANGED pairVars

\* lines 212-213 and 219: the content parsed to a JSON number, true, false or
\* null, and `for person in people` raises TypeError, which nothing catches
AnalyzedNotIterable ==
    /\ TakeFile
    /\ \E path \in Paths :
          /\ ext_of(path) \in EXTS
          /\ last' = [path |-> path, isfile |-> TRUE, extract |-> "ok", analyze |-> "ok"]
          /\ cur' = path
    /\ fileIdx' = fileIdx + 1
    /\ pc' = "aborted"
    /\ UNCHANGED <<disk, od, nFiles, todo, writes, nUpserts, upOrder, acc>>
    /\ UNCHANGED pairVars

\* lines 219-221 on an element that raises: the exception leaves main
PersonRaises ==
    /\ pc = "people"
    /\ todo > 0
    /\ \E person \in Persons : Raises(person)
    /\ pc' = "aborted"
    /\ UNCHANGED <<disk, od, nFiles, fileIdx, cur, todo, last, writes, nUpserts, upOrder, acc>>
    /\ UNCHANGED pairVars

\* lines 219-232 on one element
UpsertPerson ==
    /\ pc = "people"
    /\ todo > 0
    /\ \E person \in Persons :
          /\ ~Raises(person)
          /\ LET key == key_of(cur, person)
             IN  /\ od' \in Upsert(od, key, person.interests)
                 /\ upOrder' = Append(SelectSeq(upOrder, LAMBDA k : k # key), key)
                 /\ acc' = acc \cup { <<key, x>> : x \in ToSet(person.interests) }
    /\ nUpserts' = nUpserts + 1
    /\ todo' = todo - 1
    /\ pc' = IF todo = 1 THEN "files" ELSE "people"
    /\ UNCHANGED <<disk, nFiles, fileIdx, cur, last, writes>>
    /\ UNCHANGED pairVars

\* line 235
Save ==
    /\ pc = "files"
    /\ fileIdx = nFiles
    /\ disk' = write_ordereddict_to_csv(od)
    /\ writes' = writes + 1
    /\ pc' = "done"
    /\ UNCHANGED <<od, nFiles, fileIdx, cur, todo, last, nUpserts, upOrder, acc>>
    /\ UNCHANGED pairVars

Next ==
    \/ Load
    \/ SkipMissing
    \/ SkipUnsupported
    \/ ExtractError
    \/ AnalyzeError
    \/ Analyzed
    \/ AnalyzedNotIterable
    \/ PersonRaises
    \/ UpsertPerson
    \/ Save

Spec == Init /\ [][Next]_vars

----------------------------------------------------------------------------
(* Runs whose only input file is missing, from every CSV of up to MaxRows  *)
(* rows: load, skip, save.                                                 *)

InitLoad == InitMain(AllFiles, {1}) /\ PairIdle

NextLoad ==
    \/ Load
    \/ SkipMissing
    \/ Save

SpecLoad == InitLoad /\ [][NextLoad]_vars

----------------------------------------------------------------------------
(* Two runs side by side, from the same CSV and over the same input files. *)
(* At each element both runs see the same name and the same set of         *)
(* interests; the listing of the set (order, repeats) may differ.          *)

MainIdle ==
    /\ pc = "idle"
    /\ disk \in PersistedFiles
    /\ od = <<>>
    /\ nFiles = 1
    /\ fileIdx = 0
    /\ cur = <<>>
    /\ todo = 0
    /\ last = NoLast
    /\ writes = 0
    /\ nUpserts = 0
    /\ upOrder = <<>>
    /\ acc = {}

InitPair ==
    /\ MainIdle
    /\ pcPair = "run"
    /\ odA = load_csv_into_ordereddict(disk)
    /\ odB = load_csv_into_ordereddict(disk)
    /\ rowsA = <<>>
    /\ rowsB = <<>>

PairUpsert ==
    /\ pcPair = "run"
    /\ nUpserts < MaxUpserts
    /\ \E path \in Paths, pa \in Persons, pb \in Persons :
          /\ ext_of(path) \in EXTS
          /\ ~Raises(pa)
          /\ ~Raises(pb)
          /\ pa.nameKind = pb.nameKind
          /\ pa.name = pb.name
          /\ ToSet(pa.interests) = ToSet(pb.interests)
          /\ odA' \in Upsert(odA, key_of(path, pa), pa.interests)
          /\ odB' \in Upsert(odB, key_of(path, pb), pb.interests)
    /\ nUpserts' = nUpserts + 1
    /\ UNCHANGED <<pc, disk, od, nFiles, fileIdx, cur, todo, last, writes, upOrder, acc>>
    /\ UNCHANGED <<pcPair, rowsA, rowsB>>

PairSave ==
    /\ pcPair = "run"
    /\ rowsA' = write_rows(odA)
    /\ rowsB' = write_rows(odB)
    /\ pcPair' = "saved"
    /\ UNCHANGED mainVars
    /\ UNCHANGED <<odA, odB>>

NextPair ==
    \/ PairUpsert
    \/ PairSave

SpecPair == InitPair /\ [][NextPair]_vars

----------------------------------------------------------------------------
(* Properties *)

KeySeq(led) == [i \in 1..Len(led) |-> led[i].key]

Unique(led) == \A i, j \in 1..Len(led) : led[i].key = led[j].key => i = j

Loaded == load_csv_into_ordereddict(disk)

\* C1: the key upserted last is the last entry of the ledger, and of two keys
\* upserted by the main loop the one whose last upsert is later stands later
\* in the ledger, also when it was in the ledger before the other one came.
RecencyOrdering ==
    /\ upOrder # <<>> => (od # <<>> /\ Last(od).key = Last(upOrder))
    /\ \A i, j \in 1..Len(upOrder) :
          i < j => /\ HasKey(od, upOrder[i])
                   /\ HasKey(od, upOrder[j])
                   /\ Pos(od, upOrder[i]) < Pos(od, upOrder[j])

\* K was loaded, J came in by an upsert, then K was upserted
RecencyWitness ==
    /\ pc \in { "files", "people" }
    /\ Len(upOrder) = 2
    /\ upOrder[1] \notin Keys(Loaded)
    /\ upOrder[2] \in Keys(Loaded)
    /\ Len(od) >= 3

\* C2: the interest set of every key is exactly the union of the interests
\* the key was loaded with and of the interests every upsert of it supplied.
UnionAccumulation ==
    /\ \A i \in 1..Len(od) :
          ToSet(od[i].interests) = { pr[2] : pr \in { q \in acc : q[1] = od[i].key } }
    /\ \A pr \in acc : HasKey(od, pr[1])

\* a loaded key was upserted and its interest set grew by the merge
UnionWitness ==
    /\ pc \in { "files", "people" }
    /\ upOrder # <<>>
    /\ Last(upOrder) \in Keys(Loaded)
    /\ ToSet(GetItem(Loaded, Last(upOrder))) # {}
    /\ ToSet(GetItem(Loaded, Last(upOrder))) # ToSet(GetItem(od, Last(upOrder)))

\* C3: no two entries of the ledger have the same key, in every state; an
\* upsert adds one entry when its key is new and none when it is present, and
\* no step makes the ledger shorter.
Uniqueness ==
    /\ [] Unique(od)
    /\ [][ /\ Len(od') >= Len(od)
           /\ nUpserts' # nUpserts =>
                 Len(od') = Len(od) + (IF HasKey(od, Last(upOrder')) THEN 0 ELSE 1) ]_vars

\* the same key upserted twice: one entry
UniquenessWitness ==
    /\ nUpserts = 2
    /\ Len(upOrder) = 1
    /\ Len(od) = 1

\* C4: whatever happens to a file, the run goes on to the files after it and
\* writes the ledger once, after the last file; it never ends without writing.
PerFileFailuresNeverAbort ==
    /\ pc # "aborted"
    /\ writes <= 1
    /\ writes = 1 => fileIdx = nFiles

\* C5: no upsert is made for a fact whose trimmed name is empty, so no key
\* upserted by the main loop has the empty personName.
EmptyNamesSkipped == \A i \in 1..Len(upOrder) : upOrder[i][2] # <<>>

\* C6: the rows written at the end of a run, loaded and written again with no
\* upsert in between, are the same rows in the same order.
RoundTrip ==
    pc = "done" => write_ordereddict_to_csv(load_csv_into_ordereddict(disk)) = disk

\* a run that wrote two rows or more, one of them with two interests
RoundTripWitness ==
    /\ pc = "done"
    /\ nUpserts > 0
    /\ Len(disk.rows) >= 2
    /\ \E i \in 1..Len(disk.rows) : Len(disk.rows[i].interests) = 5

Corrupt(row) == ~json_loads(row.interests).ok

RowKey(row) == <<row.filename, row.name>>

WithText(rows, i, t) == [rows EXCEPT ![i].interests = t]

\* C7: when one row of the CSV has interests that do not parse, the load
\* succeeds, that row's key is loaded with no interests (unless a later row
\* has the same key), and every other key has the interests and the position
\* it has when the row is well-formed.
SingleCorruptRow ==
    (pc = "files" /\ disk.present) =>
        \A i \in 1..Len(disk.rows) :
            { j \in 1..Len(disk.rows) : Corrupt(disk.rows[j]) } = { i } =>
                LET k == RowKey(disk.rows[i])
                IN  /\ HasKey(od, k)
                    /\ (\A j \in (i + 1)..Len(disk.rows) : RowKey(disk.rows[j]) # k)
                          => GetItem(od, k) = <<>>
                    /\ \A t \in GoodTexts :
                          LET ref == load_rows(<<>>, WithText(disk.rows, i, t))
                          IN  /\ KeySeq(od) = KeySeq(ref)
                              /\ \A j \in 1..Len(od) : od[j].key # k => od[j] = ref[j]

\* three rows over two keys, the corrupt row between two well-formed ones
SingleCorruptRowWitness ==
    /\ pc = "files"
    /\ disk.present
    /\ Len(disk.rows) = 3
    /\ ~Corrupt(disk.rows[1])
    /\ Corrupt(disk.rows[2])
    /\ ~Corrupt(disk.rows[3])
    /\ RowKey(disk.rows[1]) # RowKey(disk.rows[2])
    /\ Len(od) = 2
    /\ od[2].interests = <<>>
    /\ od[1].interests # <<>>

LastRowOf(rows, k) ==
    CHOOSE i \in 1..Len(rows) :
        /\ RowKey(rows[i]) = k
        /\ \A j \in 1..Len(rows) : RowKey(rows[j]) = k => j <= i

\* C8: of several rows with the same key the load keeps one entry, with the
\* interests of the last of them and at the position of the last of them
\* among the entries of the other keys.
DuplicateKeepsLast ==
    (pc = "files" /\ disk.present) =>
        /\ Unique(od)
        /\ Keys(od) = { RowKey(disk.rows[i]) : i \in 1..Len(disk.rows) }
        /\ \A i \in 1..Len(od) :
              od[i].interests =
                  parse_interests(disk.rows[LastRowOf(disk.rows, od[i].key)].interests)
        /\ \A i, j \in 1..Len(od) :
              i < j => LastRowOf(disk.rows, od[i].key) < LastRowOf(disk.rows, od[j].key)

SameLedger(a, b) ==
    /\ KeySeq(a) = KeySeq(b)
    /\ \A i \in 1..Len(a) : ToSet(a[i].interests) = ToSet(b[i].interests)

\* C9: two runs that end with the same keys in the same order and the same
\* set of interests for every key write the same rows.
DeterministicSerialization ==
    (pcPair = "saved" /\ SameLedger(odA, odB)) => rowsA = rowsB

HasExtension(path) == "." \in ToSet(basename(path))

Extension(path) == AfterLast(lower(basename(path)), ".")

Supported == { <<"d","o","c","x">>, <<"p","d","f">>, <<"p","a","g","e","s">>, <<"t","x","t">> }

UnsupportedExtension(path) == HasExtension(path) /\ Extension(path) \notin Supported

Failed(l) ==
    \/ ~l.isfile
    \/ UnsupportedExtension(l.path)
    \/ l.extract = "error"
    \/ l.analyze = "error"

\* C10: a file that is missing, has an extension outside docx/pdf/pages/txt,
\* or whose extraction or analysis fails leaves the ledger as it was, and the
\* loop goes on to the next file; for an unsupported extension neither the
\* extraction nor the analysis is attempted.
FailedFileLeavesLedger ==
    [][ (fileIdx' = fileIdx + 1 /\ Failed(last')) =>
            /\ od' = od
            /\ pc' = "files"
            /\ UnsupportedExtension(last'.path) =>
                  (last'.extract = "none" /\ last'.analyze = "none") ]_vars

\* an existing file with an unsupported extension was taken, the ledger not empty
FailedFileWitness ==
    /\ last.isfile
    /\ UnsupportedExtension(last.path)
    /\ nUpserts > 0
    /\ od # <<>>

====
